---- MODULE Spec2Model ----
(***************************************************************************)
(* TusUploadInfo (tuspyserver/info.py): the per-upload metadata store.     *)
(* One store object (_params, _loaded) bound to one path, the canonical    *)
(* file "<uid>.info" and its sibling "<uid>.info.tmp" on a filesystem of   *)
(* inodes, and the callers of the blocking surface (params getter and      *)
(* setter) and of the non-blocking surface (load_params, update_params).   *)
(* Every call advances one filesystem call at a time, so that callers      *)
(* interleave where the code suspends.                                     *)
(***************************************************************************)
EXTENDS Integers, Sequences, FiniteSets, TLC

\* Bounds of the model.
UploadSize == 12        \* size of the modelled upload; offsets are 0 and UploadSize
BufferTokens == 8       \* tokens the buffered writer holds before writing through
MaxCalls == 3           \* calls entered in one behaviour of overlapping callers

(***************************************************************************)
(* Values held in _params or passed to the setter.  Every value is a       *)
(* record of the same shape so that any two compare.                       *)
(***************************************************************************)
None == [kind |-> "None", offset |-> 0, size |-> 0]

Params(o, s) == [kind |-> "params", offset |-> o, size |-> s]

\* The TusUploadParams records the callers pass in.
Records == {Params(0, UploadSize), Params(UploadSize, UploadSize)}

\* A value whose dict has a key json cannot encode: json.dumps raises TypeError.
BadKey == [kind |-> "badkey", offset |-> 0, size |-> 0]

\* A value holding an object without __dict__ (a set, bytes): the default hook
\* k.__dict__ raises AttributeError.
NoDict == [kind |-> "nodict", offset |-> 0, size |-> 0]

Unserializable == {BadKey, NoDict}

(***************************************************************************)
(* File content is a sequence of tokens.  "\n" stands for a newline with   *)
(* its indentation, "\\xff" for a byte that is not valid in the text       *)
(* encoding, "x" for any character that starts no JSON token.              *)
(***************************************************************************)
DigitChar == <<"0", "1", "2", "3", "4", "5", "6", "7", "8", "9">>

IsDigit(tok) == \E d \in 1..10 : DigitChar[d] = tok

DigitValue(tok) == (CHOOSE d \in 1..10 : DigitChar[d] = tok) - 1

RECURSIVE Digits(_)
\* The decimal text of a natural number.
Digits(n) == IF n < 10 THEN <<DigitChar[n + 1]>>
             ELSE Digits(n \div 10) \o <<DigitChar[(n % 10) + 1]>>

\* json.dumps(value, indent=4, default=lambda k: k.__dict__): the exception
\* class it raises, or "none".
DumpsError(v) ==
    CASE v.kind = "badkey" -> "TypeError"
      [] v.kind = "nodict" -> "AttributeError"
      [] OTHER -> "none"

\* json.dumps(value, indent=4, ...): the text of a serializable value.
JsonDumps(v) ==
    IF v.kind = "None" THEN <<"null">>
    ELSE <<"{", "\n", "offset:">> \o Digits(v.offset) \o <<",", "\n", "size:">>
         \o Digits(v.size) \o <<"\n", "}">>

(***************************************************************************)
(* Reading: text decoding, str.strip, json.loads, the record constructor. *)
(***************************************************************************)
IsSpace(tok) == tok = "\n"

\* Decoding the file's bytes as text fails on an invalid byte (f.read() raises
\* UnicodeDecodeError, a ValueError).
Undecodable(s) == \E i \in 1..Len(s) : s[i] = "\\xff"

RECURSIVE LStrip(_)
LStrip(s) == IF s # <<>> /\ IsSpace(Head(s)) THEN LStrip(Tail(s)) ELSE s

RECURSIVE RStrip(_)
RStrip(s) == IF s # <<>> /\ IsSpace(s[Len(s)]) THEN RStrip(SubSeq(s, 1, Len(s) - 1))
             ELSE s

\* str.strip()
Strip(s) == RStrip(LStrip(s))

Keys == {"offset:", "size:", "zzz:"}

\* What json.loads yields: err for a JSONDecodeError; otherwise the kind of
\* value and, for an object, its members (-1: key absent; a repeated key keeps
\* its last value, as a dict does).
JsonError == [err |-> TRUE, kind |-> "error", n |-> 0, offset |-> -1, size |-> -1,
              extra |-> FALSE, rest |-> <<>>]

JsonNull(rest) == [err |-> FALSE, kind |-> "null", n |-> 0, offset |-> -1, size |-> -1,
                   extra |-> FALSE, rest |-> rest]

JsonNumber(n, rest) == [err |-> FALSE, kind |-> "number", n |-> n, offset |-> -1,
                        size |-> -1, extra |-> FALSE, rest |-> rest]

EmptyObject == [err |-> FALSE, kind |-> "object", n |-> 0, offset |-> -1, size |-> -1,
                extra |-> FALSE, rest |-> <<>>]

RECURSIVE ScanNumber(_, _, _)
\* The longest run of digits at the head of s: its value, its length, the rest.
ScanNumber(s, acc, len) ==
    IF s # <<>> /\ IsDigit(Head(s))
    THEN ScanNumber(Tail(s), acc * 10 + DigitValue(Head(s)), len + 1)
    ELSE [n |-> acc, len |-> len, rest |-> s]

\* A JSON number from the digits scanned at the head of s: no leading zero.
NumberOf(s, run) ==
    IF run.len = 0 \/ (run.len > 1 /\ Head(s) = "0") THEN JsonError
    ELSE JsonNumber(run.n, run.rest)

ParseNumber(s) == NumberOf(s, ScanNumber(s, 0, 0))

SetMember(obj, key, n) ==
    CASE key = "offset:" -> [obj EXCEPT !.offset = n, !.n = obj.n + 1]
      [] key = "size:" -> [obj EXCEPT !.size = n, !.n = obj.n + 1]
      [] OTHER -> [obj EXCEPT !.extra = TRUE, !.n = obj.n + 1]

RECURSIVE ParseMembers(_, _, _)

\* After a member: "}" ends the object, "," brings the next member.
AfterMember(obj, s) ==
    IF s = <<>> THEN JsonError
    ELSE IF Head(s) = "}" THEN [obj EXCEPT !.rest = Tail(s)]
    ELSE IF Head(s) = "," THEN ParseMembers(Tail(s), obj, FALSE)
    ELSE JsonError

\* After a key: its number.
AfterKey(obj, key, num) ==
    IF num.err THEN JsonError
    ELSE AfterMember(SetMember(obj, key, num.n), LStrip(num.rest))

MemberAt(s, obj, first) ==
    IF s = <<>> THEN JsonError
    ELSE IF Head(s) = "}" /\ first THEN [obj EXCEPT !.rest = Tail(s)]
    ELSE IF Head(s) \notin Keys THEN JsonError
    ELSE AfterKey(obj, Head(s), ParseNumber(LStrip(Tail(s))))

\* The members of an object after its "{" (first) or after a ",".
ParseMembers(s, obj, first) == MemberAt(LStrip(s), obj, first)

ValueAt(s) ==
    IF s = <<>> THEN JsonError
    ELSE IF Head(s) = "null" THEN JsonNull(Tail(s))
    ELSE IF Head(s) = "{" THEN ParseMembers(Tail(s), EmptyObject, TRUE)
    ELSE ParseNumber(s)

\* Text after the value is an error ("Extra data").
WholeText(v) == IF v.err \/ LStrip(v.rest) # <<>> THEN JsonError ELSE v

\* json.loads(content)
JsonLoads(content) == WholeText(ValueAt(LStrip(content)))

\* Python truth of a decoded value: `if json_dict:`.
Truthy(j) == (j.kind = "object" /\ j.n > 0) \/ (j.kind = "number" /\ j.n # 0)

\* The constructor call on the unpacked json_dict: the exception class raised,
\* or "none".  A
\* value that is no mapping cannot be unpacked; a mapping with a missing or an
\* unexpected field is rejected by the record type.
ParamsError(j) ==
    IF j.kind # "object" \/ j.extra \/ j.offset < 0 \/ j.size < 0
    THEN "TypeError" ELSE "none"

\* The record built from a well-formed mapping.
TusUploadParams(j) == Params(j.offset, j.size)

(***************************************************************************)
(* Exception classes and the except clauses that catch them.               *)
(***************************************************************************)
\* isinstance(exc, cls) for the classes the handlers name.
IsInstance(exc, cls) ==
    \/ exc = cls
    \/ cls = "OSError" /\ exc = "FileNotFoundError"
    \/ cls = "ValueError" /\ exc \in {"JSONDecodeError", "UnicodeDecodeError"}

Caught(exc, classes) == \E cls \in classes : IsInstance(exc, cls)

\* except (IOError, OSError) / except (TypeError, ValueError) of the persist.
SerializeHandlers == {"OSError", "TypeError", "ValueError"}

\* except JSONDecodeError / FileNotFoundError / (KeyError, TypeError) /
\* (IOError, OSError) of the load.
DeserializeHandlers == {"JSONDecodeError", "FileNotFoundError", "KeyError", "TypeError",
                        "OSError"}

(***************************************************************************)
(* State.                                                                  *)
(***************************************************************************)
VARIABLES
    canon,      \* inode at self.path ("<uid>.info"), or NoFile
    temp,       \* inode at temp_path ("<uid>.info.tmp"), or NoFile
    data,       \* content of every inode
    _params,    \* TusUploadInfo._params
    _loaded,    \* TusUploadInfo._loaded
    alive,      \* a store object exists (constructed, process running)
    tasks,      \* one record per caller: the call in progress and its position
    durable,    \* canonical content the completed writes account for
    twin,       \* a second store with its own path, driven through the
                \* blocking surface only
    ncalls      \* calls entered so far, where a specification bounds them

vars == <<canon, temp, data, _params, _loaded, alive, tasks, durable, twin, ncalls>>

Tasks == {"t1", "t2"}

NoFile == 0

Inodes == 1..(Cardinality(Tasks) + 2)

\* What a path without a directory entry reads as (os.path.exists is False).
Absent == <<"ENOENT">>

\* What a caller keeps of the call it made just before: the method, what it
\* returned, what it raised.
NoPrev == [op |-> "none", ret |-> None, exc |-> "none"]

IdleTask == [op |-> "idle", pc |-> "idle", arg |-> None, fh |-> NoFile, pos |-> 0,
             buf |-> <<>>, exc |-> "none", ret |-> None, calls |-> {},
             text |-> <<>>, canon0 |-> <<>>, temp0 |-> <<>>, prev |-> NoPrev]

(***************************************************************************)
(* A step of one call works on a context: the filesystem, the store, the   *)
(* caller's own record t, and the inodes other callers hold open.          *)
(***************************************************************************)
Refs(c) == ({c.canon, c.temp, c.t.fh} \cup c.others) \ {NoFile}

\* The inode number a newly created file gets.
FreeInode(c) == CHOOSE i \in Inodes : i \notin Refs(c) /\
                                      \A j \in Inodes : j \notin Refs(c) => i <= j

\* An inode with no directory entry and no open handle is gone.
Collect(c) == [c EXCEPT !.data = [i \in Inodes |-> IF i \in Refs(c) THEN c.data[i]
                                                   ELSE <<>>]]

\* os.path.exists(self.path)
exists(c) == c.canon # NoFile

CanonContent(c) == IF c.canon = NoFile THEN Absent ELSE c.data[c.canon]

TempContent(c) == IF c.temp = NoFile THEN Absent ELSE c.data[c.temp]

Did(c, call) == [c EXCEPT !.t.calls = @ \cup {call}]

\* The content of a file after s is written at offset pos (a gap reads as NULs).
Padded(old, pos) ==
    IF Len(old) < pos THEN old \o [i \in 1..(pos - Len(old)) |-> "\\0"] ELSE old

Overwrite(old, pos, s) ==
    SubSeq(old, 1, pos) \o s \o SubSeq(old, pos + Len(s) + 1, Len(old))

WriteAt(old, pos, s) == Overwrite(Padded(old, pos), pos, s)

\* Mutant of OpenAs: the file is opened for writing without truncation.
OpenKeepsContent(c, i) ==
    Did([c EXCEPT !.temp = i, !.t.fh = i, !.t.pos = 0], "open_w")

\* open(temp_path, "w"): create the file, or truncate the one that is there;
\* the handle starts at offset 0.
OpenAs(c, i) ==
    Did([c EXCEPT !.temp = i, !.data[i] = <<>>, !.t.fh = i, !.t.pos = 0], "open_w")
\* Mutant of OpenTruncate: the persist opens the canonical path itself.
OpenInPlace(c) ==
    [OpenAs([c EXCEPT !.canon = IF c.canon = NoFile THEN FreeInode(c) ELSE c.canon],
            IF c.canon = NoFile THEN FreeInode(c) ELSE c.canon)
     EXCEPT !.temp = c.temp]

OpenTruncate(c) == OpenAs(c, IF c.temp = NoFile THEN FreeInode(c) ELSE c.temp)

\* f.write(json_string): text that exceeds the buffer is written through in
\* whole buffers, the remainder stays buffered.
WriteThrough(c, n) ==
    Did([c EXCEPT !.data[c.t.fh] = WriteAt(@, c.t.pos, SubSeq(c.t.buf, 1, n)),
                  !.t.pos = @ + n,
                  !.t.buf = SubSeq(c.t.buf, n + 1, Len(c.t.buf))], "write")

BufferedWrite(c) ==
    WriteThrough(c, IF Len(c.t.buf) > BufferTokens
                    THEN (Len(c.t.buf) \div BufferTokens) * BufferTokens ELSE 0)
\* Mutant of Flush: the buffered text is dropped instead of written.
FlushDropsBuffer(c) == Did([c EXCEPT !.t.buf = <<>>], "flush")

\* f.flush(): what is buffered goes to the file at the handle's offset.
Flush(c) ==
    Did([c EXCEPT !.data[c.t.fh] = WriteAt(@, c.t.pos, c.t.buf),
                  !.t.pos = @ + Len(c.t.buf),
                  !.t.buf = <<>>], "flush")

\* Leaving the with block: the file is closed.
Close(c) == Collect([c EXCEPT !.t.fh = NoFile, !.t.pos = 0, !.t.buf = <<>>])

\* os.rename(temp_path, self.path): the temp file's inode replaces the
\* canonical one in a single step.
Rename(c) ==
    Collect(Did([c EXCEPT !.canon = c.temp, !.temp = NoFile,
                          !.durable = JsonDumps(c.t.arg)], "rename"))

\* os.remove(temp_path)
Remove(c) == Collect(Did([c EXCEPT !.temp = NoFile], "remove"))

\* The function returns, or raises exc, to the method that called it.
Returned(c) == [c EXCEPT !.t.pc = "returned"]

Raised(c, exc) == [c EXCEPT !.t.pc = "raised", !.t.exc = exc]

\* The call is over: the caller has its result.
Done(c, ret) == [c EXCEPT !.t.pc = "done", !.t.ret = ret]

(***************************************************************************)
(* The persist, one filesystem call per step.  fault names the call that   *)
(* the filesystem fails in this step ("none": it succeeds).                *)
(***************************************************************************)
\* Mutant of CleanupSync: the temp file is left where it is.
CleanupSyncLeaves(c) == Raised(c, c.t.exc)

\* The except clauses of _serialize_sync, entered with the exception in
\* t.exc: log, remove the temp file if it is there, re-raise.  An exception no
\* clause names leaves at once.
CleanupSync(c) ==
    IF c.temp # NoFile THEN [c EXCEPT !.t.pc = "remove"] ELSE Raised(c, c.t.exc)

SerializeExceptSync(c) ==
    IF Caught(c.t.exc, SerializeHandlers) THEN CleanupSync(Did(c, "exists"))
    ELSE Raised(c, c.t.exc)

\* Inside `with open(temp_path, "w") as f`: json.dumps of self._params.
DumpSync(o) ==
    IF DumpsError(o._params) # "none"
    THEN [o EXCEPT !.t.exc = DumpsError(o._params), !.t.pc = "xclose"]
    ELSE [o EXCEPT !.t.buf = JsonDumps(o._params), !.t.pc = "write"]

Failing(c, call, exc) == [Did(c, call) EXCEPT !.t.exc = exc]

_serialize_sync(c, fault) ==
    CASE c.t.pc = "open" ->
           IF fault = "open" THEN SerializeExceptSync(Failing(c, "open_w", "OSError"))
           ELSE DumpSync(OpenTruncate(c))
      [] c.t.pc = "write" ->
           IF fault = "write" THEN [Failing(c, "write", "OSError") EXCEPT !.t.pc = "xclose"]
           ELSE [BufferedWrite(c) EXCEPT !.t.pc = "flush"]
      [] c.t.pc = "flush" ->
           IF fault = "flush" THEN [Failing(c, "flush", "OSError") EXCEPT !.t.pc = "xclose"]
           ELSE IF fault = "fsync"
           THEN [Failing(Flush(c), "fsync", "OSError") EXCEPT !.t.pc = "xclose"]
           ELSE [Did(Flush(c), "fsync") EXCEPT !.t.pc = "close"]
      [] c.t.pc = "close" -> [Close(c) EXCEPT !.t.pc = "rename"]
      [] c.t.pc = "rename" ->
           IF fault = "rename" THEN SerializeExceptSync(Failing(c, "rename", "OSError"))
           ELSE IF c.temp = NoFile
           THEN SerializeExceptSync(Failing(c, "rename", "FileNotFoundError"))
           ELSE Returned(Rename(c))
      [] c.t.pc = "xclose" -> SerializeExceptSync(Close(c))
      [] c.t.pc = "remove" ->
           IF fault = "remove" \/ c.temp = NoFile
           THEN Raised(Did(c, "remove"), c.t.exc)
           ELSE Raised(Remove(c), c.t.exc)
      [] OTHER -> c

\* The except clauses of serialize.
Cleanup(c) ==
    IF c.temp # NoFile THEN [c EXCEPT !.t.pc = "remove"] ELSE Raised(c, c.t.exc)

SerializeExcept(c) ==
    IF Caught(c.t.exc, SerializeHandlers) THEN Cleanup(Did(c, "exists"))
    ELSE Raised(c, c.t.exc)

\* Inside `async with aiofiles.open(temp_path, "w") as f`: json.dumps of
\* self._params, as it is when the open resumes.
Dump(o) ==
    IF DumpsError(o._params) # "none"
    THEN [o EXCEPT !.t.exc = DumpsError(o._params), !.t.pc = "xclose"]
    ELSE [o EXCEPT !.t.buf = JsonDumps(o._params), !.t.pc = "write"]

\* Each case is one awaited call together with the code that runs when it
\* resumes, up to the next await.
serialize(c, fault) ==
    CASE c.t.pc = "open" ->
           IF fault = "open" THEN SerializeExcept(Failing(c, "open_w", "OSError"))
           ELSE Dump(OpenTruncate(c))
      [] c.t.pc = "write" ->
           IF fault = "write" THEN [Failing(c, "write", "OSError") EXCEPT !.t.pc = "xclose"]
           ELSE [BufferedWrite(c) EXCEPT !.t.pc = "flush"]
      [] c.t.pc = "flush" ->
           IF fault = "flush" THEN [Failing(c, "flush", "OSError") EXCEPT !.t.pc = "xclose"]
           ELSE IF fault = "fsync"
           THEN [Failing(Flush(c), "fsync", "OSError") EXCEPT !.t.pc = "xclose"]
           ELSE [Did(Flush(c), "fsync") EXCEPT !.t.pc = "close"]
      [] c.t.pc = "close" -> [Close(c) EXCEPT !.t.pc = "rename"]
      [] c.t.pc = "rename" ->
           IF fault = "rename" THEN SerializeExcept(Failing(c, "rename", "OSError"))
           ELSE IF c.temp = NoFile
           THEN SerializeExcept(Failing(c, "rename", "FileNotFoundError"))
           ELSE Returned(Rename(c))
      [] c.t.pc = "xclose" -> SerializeExcept(Close(c))
      [] c.t.pc = "remove" ->
           IF fault = "remove" \/ c.temp = NoFile
           THEN Raised(Did(c, "remove"), c.t.exc)
           ELSE Raised(Remove(c), c.t.exc)
      [] OTHER -> c

(***************************************************************************)
(* The load.                                                               *)
(***************************************************************************)
\* Mutant of OpenRead: the file is opened in a mode that truncates it.
OpenReadTruncates(c) ==
    Did([c EXCEPT !.data = [i \in Inodes |-> IF i = c.canon THEN <<>> ELSE c.data[i]],
                  !.t.fh = c.canon, !.t.pos = 0], "open_r")

\* open(self.path, "r")
OpenRead(c) == Did([c EXCEPT !.t.fh = c.canon, !.t.pos = 0], "open_r")

\* f.read(): the whole content of the open file.
ReadAll(c) == Did([c EXCEPT !.t.text = c.data[c.t.fh]], "read")
\* Mutant of BuildSync: the test `if json_dict:` inverted.
BuildSyncInverted(c, json_dict) ==
    IF json_dict.err THEN [c EXCEPT !.t.exc = "JSONDecodeError"]
    ELSE IF Truthy(json_dict) THEN [c EXCEPT !._params = None]
    ELSE IF ParamsError(json_dict) # "none"
    THEN [c EXCEPT !.t.exc = ParamsError(json_dict)]
    ELSE [c EXCEPT !._params = TusUploadParams(json_dict)]

\* `if json_dict:` and the construction of the record.
BuildSync(c, json_dict) ==
    IF json_dict.err THEN [c EXCEPT !.t.exc = "JSONDecodeError"]
    ELSE IF ~Truthy(json_dict) THEN [c EXCEPT !._params = None]
    ELSE IF ParamsError(json_dict) # "none"
    THEN [c EXCEPT !.t.exc = ParamsError(json_dict)]
    ELSE [c EXCEPT !._params = TusUploadParams(json_dict)]

\* `if not content: return None`, else json.loads.
LoadsSync(c, content) ==
    IF content = <<>> THEN c ELSE BuildSync(c, JsonLoads(content))

\* The body of the with block: f.read().strip() and what follows.
ParseSync(c) ==
    IF Undecodable(c.t.text) THEN [c EXCEPT !.t.exc = "UnicodeDecodeError"]
    ELSE LoadsSync(c, Strip(c.t.text))

\* The except clauses of _deserialize_sync, then `return self._params`.
DeserializeExceptSync(c) ==
    IF c.t.exc = "none" THEN Returned(c)
    ELSE IF Caught(c.t.exc, DeserializeHandlers)
    THEN Returned([c EXCEPT !._params = None, !.t.exc = "none"])
    ELSE Raised(c, c.t.exc)

_deserialize_sync(c, fault) ==
    CASE c.t.pc = "exists" ->
           IF exists(c) THEN [Did(c, "exists") EXCEPT !.t.pc = "ropen"]
           ELSE Returned([Did(c, "exists") EXCEPT !._params = None])
      [] c.t.pc = "ropen" ->
           IF fault = "ropen" THEN DeserializeExceptSync(Failing(c, "open_r", "OSError"))
           ELSE IF c.canon = NoFile
           THEN DeserializeExceptSync(Failing(c, "open_r", "FileNotFoundError"))
           ELSE [OpenRead(c) EXCEPT !.t.pc = "read"]
      [] c.t.pc = "read" ->
           IF fault = "read" THEN [Failing(c, "read", "OSError") EXCEPT !.t.pc = "rclose"]
           ELSE [ParseSync(ReadAll(c)) EXCEPT !.t.pc = "rclose"]
      [] c.t.pc = "rclose" -> DeserializeExceptSync(Close(c))
      [] OTHER -> c

\* `if json_dict:` and the construction of the record.
Build(c, json_dict) ==
    IF json_dict.err THEN [c EXCEPT !.t.exc = "JSONDecodeError"]
    ELSE IF ~Truthy(json_dict) THEN [c EXCEPT !._params = None]
    ELSE IF ParamsError(json_dict) # "none"
    THEN [c EXCEPT !.t.exc = ParamsError(json_dict)]
    ELSE [c EXCEPT !._params = TusUploadParams(json_dict)]

\* `if not content: return None`, else json.loads.
Loads(c, content) ==
    IF content = <<>> THEN c ELSE Build(c, JsonLoads(content))

\* The body of the async with block once `await f.read()` has resumed.
Parse(c) ==
    IF Undecodable(c.t.text) THEN [c EXCEPT !.t.exc = "UnicodeDecodeError"]
    ELSE Loads(c, Strip(c.t.text))

\* The except clauses of deserialize, then `return self._params`.
DeserializeExcept(c) ==
    IF c.t.exc = "none" THEN Returned(c)
    ELSE IF Caught(c.t.exc, DeserializeHandlers)
    THEN Returned([c EXCEPT !._params = None, !.t.exc = "none"])
    ELSE Raised(c, c.t.exc)

deserialize(c, fault) ==
    CASE c.t.pc = "exists" ->
           IF exists(c) THEN [Did(c, "exists") EXCEPT !.t.pc = "ropen"]
           ELSE Returned([Did(c, "exists") EXCEPT !._params = None])
      [] c.t.pc = "ropen" ->
           IF fault = "ropen" THEN DeserializeExcept(Failing(c, "open_r", "OSError"))
           ELSE IF c.canon = NoFile
           THEN DeserializeExcept(Failing(c, "open_r", "FileNotFoundError"))
           ELSE [OpenRead(c) EXCEPT !.t.pc = "read"]
      [] c.t.pc = "read" ->
           IF fault = "read" THEN [Failing(c, "read", "OSError") EXCEPT !.t.pc = "rclose"]
           ELSE [Parse(ReadAll(c)) EXCEPT !.t.pc = "rclose"]
      [] c.t.pc = "rclose" -> DeserializeExcept(Close(c))
      [] OTHER -> c

(***************************************************************************)
(* The methods of TusUploadInfo.  pc = "call" is the entry of the method.  *)
(***************************************************************************)
\* The method ends when the function it called returns (with value ret) or
\* raises.
Finish(r, ret) == IF r.t.pc \in {"returned", "raised"} THEN Done(r, ret) ELSE r

\* Construction fails when the persist raises: there is no store object.
FinishInit(r) ==
    IF r.t.pc = "raised" THEN [Done(r, None) EXCEPT !.alive = FALSE] ELSE Finish(r, None)
\* Mutant of CreateIfMissing: the persist runs whether or not a file exists.
CreateAlways(n) ==
    IF n.t.arg = None THEN Done(n, None)
    ELSE [Did(n, "exists") EXCEPT !.t.pc = "open"]

\* Mutant of CreateIfMissing: the operands swapped, `not self.exists and params`.
CreateChecksFirst(n) ==
    IF exists(n) THEN Done(Did(n, "exists"), None)
    ELSE IF n.t.arg = None THEN Done(Did(n, "exists"), None)
    ELSE [Did(n, "exists") EXCEPT !.t.pc = "open"]

\* `if params and not self.exists: self._serialize_sync()`
CreateIfMissing(n) ==
    IF n.t.arg = None THEN Done(n, None)
    ELSE IF exists(n) THEN Done(Did(n, "exists"), None)
    ELSE [Did(n, "exists") EXCEPT !.t.pc = "open"]

\* def __init__(self, file, params=None)
__init__(c, fault) ==
    IF c.t.pc = "call"
    THEN CreateIfMissing([c EXCEPT !._params = c.t.arg, !._loaded = (c.t.arg # None)])
    ELSE FinishInit(_serialize_sync(c, fault))

\* `self._loaded = True; return self._params` once the load has returned.
FinishGet(r) ==
    IF r.t.pc = "returned" THEN Done([r EXCEPT !._loaded = TRUE], r._params)
    ELSE Finish(r, None)

\* @property params
params_get(c, fault) ==
    IF c.t.pc # "call" THEN FinishGet(_deserialize_sync(c, fault))
    ELSE IF c._loaded THEN Done(c, c._params)
    ELSE FinishGet(_deserialize_sync([c EXCEPT !.t.pc = "exists"], fault))
\* Mutant of params_set: the cache is left as it was before the persist.
params_set_keeps_cache(c, fault) ==
    IF c.t.pc = "call" THEN [c EXCEPT !.t.pc = "open"]
    ELSE Finish(_serialize_sync(c, fault), None)

\* @params.setter
params_set(c, fault) ==
    IF c.t.pc = "call"
    THEN [c EXCEPT !._params = c.t.arg, !._loaded = TRUE, !.t.pc = "open"]
    ELSE Finish(_serialize_sync(c, fault), None)

\* Mutant of update_params: `self._loaded = True` left out.
update_params_not_loaded(c, fault) ==
    IF c.t.pc = "call"
    THEN [c EXCEPT !._params = c.t.arg, !.t.pc = "open"]
    ELSE Finish(serialize(c, fault), None)

\* async def update_params(self, value)
update_params(c, fault) ==
    IF c.t.pc = "call"
    THEN [c EXCEPT !._params = c.t.arg, !._loaded = TRUE, !.t.pc = "open"]
    ELSE Finish(serialize(c, fault), None)

\* `self._loaded = True; return self._params` once the load has returned.
FinishLoad(r) ==
    IF r.t.pc = "returned" THEN Done([r EXCEPT !._loaded = TRUE], r._params)
    ELSE Finish(r, None)

\* Mutant of load_params: the test `if not self._loaded` dropped.
load_params_always_loads(c, fault) ==
    IF c.t.pc # "call" THEN FinishLoad(deserialize(c, fault))
    ELSE FinishLoad(deserialize([c EXCEPT !.t.pc = "exists"], fault))

\* async def load_params(self)
load_params(c, fault) ==
    IF c.t.pc # "call" THEN FinishLoad(deserialize(c, fault))
    ELSE IF c._loaded THEN Done(c, c._params)
    ELSE FinishLoad(deserialize([c EXCEPT !.t.pc = "exists"], fault))

Method(c, fault) ==
    CASE c.t.op = "__init__" -> __init__(c, fault)
      [] c.t.op = "params_get" -> params_get(c, fault)
      [] c.t.op = "params_set" -> params_set(c, fault)
      [] c.t.op = "update_params" -> update_params(c, fault)
      [] c.t.op = "load_params" -> load_params(c, fault)
      [] OTHER -> c

\* The calls the filesystem may fail at each position.
FaultsAt(pc) ==
    CASE pc = "open" -> {"none", "open"}
      [] pc = "write" -> {"none", "write"}
      [] pc = "flush" -> {"none", "flush", "fsync"}
      [] pc = "rename" -> {"none", "rename"}
      [] pc = "remove" -> {"none", "remove"}
      [] pc = "ropen" -> {"none", "ropen"}
      [] pc = "read" -> {"none", "read"}
      [] OTHER -> {"none"}

Faults == {"none", "open", "write", "flush", "fsync", "rename", "remove", "ropen", "read"}

RECURSIVE Run(_, _)
\* A call run to its end with nothing in between; the filesystem fails the
\* call named faultAt, if the run makes it.
Run(c, faultAt) ==
    IF c.t.pc = "done" THEN c
    ELSE Run(Method(c, IF faultAt \in FaultsAt(c.t.pc) THEN faultAt ELSE "none"), faultAt)

\* The record of a caller entering method op with argument arg.
Entering(c, op, arg) ==
    [c EXCEPT !.t = [IdleTask EXCEPT
                         !.op = op, !.pc = "call", !.arg = arg,
                         !.canon0 = CanonContent(c),
                         !.temp0 = TempContent(c),
                         !.prev = IF c.t.pc = "done"
                                  THEN [op |-> c.t.op, ret |-> c.t.ret, exc |-> c.t.exc]
                                  ELSE NoPrev]]

(***************************************************************************)
(* Actions.                                                                *)
(***************************************************************************)
Ctx(i) == [canon |-> canon, temp |-> temp, data |-> data, _params |-> _params,
           _loaded |-> _loaded, alive |-> alive, durable |-> durable,
           others |-> {tasks[j].fh : j \in Tasks \ {i}}, t |-> tasks[i]]

Commit(i, r) ==
    /\ canon' = r.canon
    /\ temp' = r.temp
    /\ data' = r.data
    /\ _params' = r._params
    /\ _loaded' = r._loaded
    /\ alive' = r.alive
    /\ durable' = r.durable
    /\ tasks' = [tasks EXCEPT ![i] = r.t]

Active(i) == tasks[i].pc \notin {"idle", "done"}

Getters == {"params_get", "load_params"}

Setters == {"params_set", "update_params"}

Blocking == {"params_get", "params_set"}

NonBlocking == {"load_params", "update_params"}

\* What a caller may pass to a method.
Args(op) == IF op \in Setters \cup {"__init__"} THEN Records \cup Unserializable
            ELSE {None}

\* TusUploadInfo(file) or TusUploadInfo(file, params): a new store object for
\* the path, replacing the one before it.
Construct(i, arg) ==
    /\ \A j \in Tasks : tasks[j].pc = "idle"
    /\ Commit(i, __init__(Entering([Ctx(i) EXCEPT !.alive = TRUE], "__init__", arg),
                          "none"))

\* A caller enters a method of the store; the method runs to its first
\* filesystem call.
Call(i, op, arg) ==
    /\ alive
    /\ tasks[i].pc = "idle"
    /\ \A j \in Tasks : tasks[j].op = "__init__" => tasks[j].pc = "done"
    /\ Commit(i, Method(Entering(Ctx(i), op, arg), "none"))

\* A caller that has the result of its last call makes its next one.
CallNext(i, op, arg) ==
    /\ alive
    /\ tasks[i].pc = "done"
    /\ Commit(i, Method(Entering(Ctx(i), op, arg), "none"))

\* The pending filesystem call of a caller happens, or fails, and the method
\* runs on to its next one.
Step(i, fault) ==
    /\ Active(i)
    /\ fault \in FaultsAt(tasks[i].pc)
    /\ Commit(i, Method(Ctx(i), fault))

\* A blocking call made on the event loop: nothing else runs until it is over.
CallBlocking(i, op, arg, faultAt) ==
    /\ alive
    /\ tasks[i].pc = "idle"
    /\ Commit(i, Run(Entering(Ctx(i), op, arg), faultAt))

\* The caller takes the result of its call.
Return(i) ==
    /\ tasks[i].pc = "done"
    /\ tasks' = [tasks EXCEPT ![i] = IdleTask]
    /\ UNCHANGED <<canon, temp, data, _params, _loaded, alive, durable>>

\* The process dies: every call in progress stops where it is, open files
\* are closed without their buffers, the store object is gone.
Crash ==
    /\ \E i \in Tasks : Active(i)
    /\ tasks' = [i \in Tasks |-> IdleTask]
    /\ alive' = FALSE
    /\ _params' = None
    /\ _loaded' = FALSE
    /\ data' = [i \in Inodes |-> IF i \in {canon, temp} THEN data[i] ELSE <<>>]
    /\ UNCHANGED <<canon, temp, durable>>

(***************************************************************************)
(* Initial states: a store constructed without a record, and a canonical   *)
(* file that is absent or holds one of the given contents.                 *)
(***************************************************************************)
Bodies == {JsonDumps(r) : r \in Records}

\* Contents a canonical file may be found with that no persist wrote: empty,
\* blank, JSON null, an empty object, a cut-off object, an object with an
\* unknown field, an object lacking a field, bytes that are not text.
OddFiles == {<<>>, <<"\n">>, <<"null">>, <<"{", "}">>, <<"{", "\n", "offset:">>,
             <<"{", "\n", "zzz:", "1", "\n", "}">>,
             <<"{", "\n", "offset:", "7", "\n", "}">>, <<"\\xff">>}

World(content) ==
    [canon |-> IF content = Absent THEN NoFile ELSE 1,
     temp |-> NoFile,
     data |-> [i \in Inodes |-> IF i = 1 /\ content # Absent THEN content ELSE <<>>],
     _params |-> None, _loaded |-> FALSE, alive |-> TRUE, durable |-> content,
     others |-> {}, t |-> IdleTask]

InitWith(contents) ==
    \E content \in contents \cup {Absent} :
        /\ canon = World(content).canon
        /\ temp = NoFile
        /\ data = World(content).data
        /\ _params = None
        /\ _loaded = FALSE
        /\ alive = TRUE
        /\ tasks = [i \in Tasks |-> IdleTask]
        /\ durable = content
        /\ twin = World(content)
        /\ ncalls = 0

Init == InitWith(Bodies)

\* A call counted against MaxCalls.
Counted == ncalls < MaxCalls /\ ncalls' = ncalls + 1 /\ UNCHANGED twin

Uncounted == UNCHANGED <<twin, ncalls>>

\* Callers on one event loop, no filesystem faults: non-blocking calls
\* interleave at their awaits, a blocking call runs whole.
Next ==
    \/ \E i \in Tasks, op \in NonBlocking : \E arg \in Args(op) :
           Call(i, op, arg) /\ Counted
    \/ \E i \in Tasks, op \in Blocking : \E arg \in Args(op) :
           CallBlocking(i, op, arg, "none") /\ Counted
    \/ \E i \in Tasks : Step(i, "none") /\ Uncounted
    \/ \E i \in Tasks : Return(i) /\ Uncounted

Spec == Init /\ [][Next]_vars

\* One caller, one call at a time, through either surface; the filesystem may
\* fail any call, the process may die at any step and the store be built anew.
NextSeq ==
    \/ \E arg \in Args("__init__") \cup {None} : Construct("t1", arg) /\ Uncounted
    \/ \E op \in Blocking \cup NonBlocking : \E arg \in Args(op) :
           Call("t1", op, arg) /\ Uncounted
    \/ \E fault \in Faults : Step("t1", fault) /\ Uncounted
    \/ Return("t1") /\ Uncounted
    \/ Crash /\ Uncounted

InitSeq == InitWith(Bodies \cup OddFiles)

SpecSeq == InitSeq /\ [][NextSeq]_vars

(***************************************************************************)
(* The file under another process: a store elsewhere replaces it by a      *)
(* rename of its own, or the upload is deleted.                            *)
(***************************************************************************)
EnvReplace(content) ==
    /\ content # CanonContent(Ctx("t1"))
    /\ \E i \in Inodes :
           /\ i \notin Refs(Ctx("t1"))
           /\ \A j \in Inodes : j \notin Refs(Ctx("t1")) => i <= j
           /\ canon' = i
           /\ data' = [k \in Inodes |->
                          IF k = i THEN content
                          ELSE IF k = canon /\ tasks["t1"].fh # canon THEN <<>>
                          ELSE data[k]]
    /\ durable' = content
    /\ UNCHANGED <<temp, _params, _loaded, alive, tasks>>

EnvUnlink ==
    /\ canon # NoFile
    /\ canon' = NoFile
    /\ data' = [k \in Inodes |-> IF k = canon /\ tasks["t1"].fh # canon THEN <<>>
                                 ELSE data[k]]
    /\ durable' = Absent
    /\ UNCHANGED <<temp, _params, _loaded, alive, tasks>>

\* One caller, one call after the other, while the file changes under it and
\* reads may fail.
NextEnv ==
    \/ \E op \in Blocking \cup NonBlocking : \E arg \in Args(op) \ Unserializable :
           Call("t1", op, arg) /\ Uncounted
    \/ \E op \in Blocking \cup NonBlocking : \E arg \in Args(op) \ Unserializable :
           CallNext("t1", op, arg) /\ Uncounted
    \/ \E fault \in {"none", "ropen", "read"} : Step("t1", fault) /\ Uncounted
    \/ \E content \in Bodies : EnvReplace(content) /\ Uncounted
    \/ EnvUnlink /\ Uncounted

SpecEnv == InitSeq /\ [][NextEnv]_vars

(***************************************************************************)
(* Overlapping callers with at most one persist in progress at a time.     *)
(***************************************************************************)
NoWriter(i) == \A j \in Tasks \ {i} : ~(Active(j) /\ tasks[j].op \in Setters)

NextOneWriter ==
    \/ \E i \in Tasks : Call(i, "load_params", None) /\ Counted
    \/ \E i \in Tasks : \E arg \in Args("update_params") :
           NoWriter(i) /\ Call(i, "update_params", arg) /\ Counted
    \/ \E i \in Tasks, op \in Blocking : \E arg \in Args(op) :
           NoWriter(i) /\ CallBlocking(i, op, arg, "none") /\ Counted
    \/ \E i \in Tasks : Step(i, "none") /\ Uncounted
    \/ \E i \in Tasks : Return(i) /\ Uncounted

SpecOneWriter == Init /\ [][NextOneWriter]_vars

(***************************************************************************)
(* The same operations on two stores with paths of their own: this one     *)
(* through load_params and update_params, the twin through the params      *)
(* property, with the same filesystem fault.                               *)
(***************************************************************************)
BlockingOf(op) ==
    CASE op = "load_params" -> "params_get"
      [] op = "update_params" -> "params_set"
      [] OTHER -> op

Both(op, arg, faultAt) ==
    /\ tasks["t1"].pc \in {"idle", "done"}
    /\ Commit("t1", Run(Entering([Ctx("t1") EXCEPT !.alive = (@ \/ op = "__init__")],
                                 op, arg), faultAt))
    /\ twin' = Run(Entering([twin EXCEPT !.alive = (@ \/ op = "__init__")],
                            BlockingOf(op), arg), faultAt)
    /\ UNCHANGED ncalls

NextBoth ==
    \/ \E arg \in Args("__init__") \cup {None}, faultAt \in Faults :
           Both("__init__", arg, faultAt)
    \/ \E faultAt \in Faults : alive /\ Both("load_params", None, faultAt)
    \/ \E arg \in Args("update_params"), faultAt \in Faults :
           alive /\ Both("update_params", arg, faultAt)

SpecBoth == InitSeq /\ [][NextBoth]_vars

(***************************************************************************)
(* Overlapping readers and no writer: load_params calls interleave at      *)
(* their awaits over a file of any content, a blocking get runs whole.     *)
(***************************************************************************)
NextReaders ==
    \/ \E i \in Tasks : Call(i, "load_params", None) /\ Counted
    \/ \E i \in Tasks : CallBlocking(i, "params_get", None, "none") /\ Counted
    \/ \E i \in Tasks : Step(i, "none") /\ Uncounted
    \/ \E i \in Tasks : Return(i) /\ Uncounted

SpecReaders == InitSeq /\ [][NextReaders]_vars

(***************************************************************************)
(* Properties.                                                             *)
(***************************************************************************)
T1 == tasks["t1"]

Here == Ctx("t1")

\* A store newly constructed without a record on the same path, as after a
\* restart: no handle of the old process is left.
FreshStore ==
    Run(Entering(Collect([Here EXCEPT !.alive = TRUE, !.others = {}, !.t = IdleTask]),
                 "__init__", None), "none")

\* get() and asyncGet() made now on store c, run to their end.
GetOn(c) == Run(Entering(c, "params_get", None), "none")

LoadOn(c) == Run(Entering(c, "load_params", None), "none")

\* C1: with one call at a time, each of which may be interrupted at any step
\* (a filesystem failure or the death of the process), the canonical file is
\* at every moment what it was initially or the complete serialization of the
\* record of the last call whose rename completed, and a fresh store after a
\* restart reads that record back.
C1_AtomicPersist ==
    /\ CanonContent(Here) = durable
    /\ \A r \in Records :
           durable = JsonDumps(r) =>
               /\ GetOn(FreshStore).t.ret = r
               /\ GetOn(FreshStore).t.exc = "none"

\* C1 witness: the process died with the complete new body in the temp file
\* and the canonical file still holding the other record.
C1_Witness ==
    /\ ~alive
    /\ temp # NoFile /\ canon # NoFile
    /\ data[temp] \in Bodies /\ data[canon] \in Bodies
    /\ data[temp] # data[canon]

\* C2: while at most one persist runs at a time, whatever a reader reads from
\* the canonical file, at any interleaving with the steps of the persist, is
\* a complete body, never a partial or an empty one.
C2_ReaderSeesWhole ==
    \A i \in Tasks :
        (tasks[i].op \in Getters /\ "read" \in tasks[i].calls) =>
            tasks[i].text \in Bodies \cup {JsonDumps(None)}

\* C2 witness: a reader has read the old body while the writer holds the
\* complete new one in the temp file, not yet renamed.
C2_Witness ==
    \E i, j \in Tasks :
        /\ tasks[i].op = "load_params" /\ tasks[i].pc = "rclose"
        /\ tasks[j].op = "update_params" /\ tasks[j].pc = "rename"
        /\ temp # NoFile /\ data[temp] \in Bodies
        /\ tasks[i].text \in Bodies /\ tasks[i].text # data[temp]

\* C3 (as claimed): while two update_params calls on the store overlap and
\* when both are over, the canonical file is absent as before or holds the
\* complete serialization of a record.
C3_NoCorruption ==
    (\A i \in Tasks : tasks[i].op = "update_params") =>
        CanonContent(Here) \in Bodies \cup {Absent}

\* C4: after set(R) or asyncSet(R) of a valid record has returned without a
\* failure, get() on the same store returns R, and get() and asyncGet() on a
\* freshly constructed store on the same path return R.
C4_RoundTrip ==
    (T1.pc = "done" /\ T1.op \in Setters /\ T1.exc = "none" /\ T1.arg \in Records) =>
        /\ GetOn(Here).t.ret = T1.arg
        /\ GetOn(FreshStore).t.ret = T1.arg
        /\ LoadOn(FreshStore).t.ret = T1.arg

\* C4 witness: a set of a record has returned without a failure over a file
\* that held something else.
C4_Witness ==
    /\ T1.pc = "done" /\ T1.op \in Setters /\ T1.exc = "none" /\ T1.arg \in Records
    /\ T1.canon0 # JsonDumps(T1.arg)

\* C5 (as claimed): a get()/asyncGet() that follows a completed one, with no
\* set in between, reads no file and returns what the one before returned.
C5_IdempotentLoad ==
    (T1.pc = "done" /\ T1.op \in Getters /\ T1.prev.op \in Getters) =>
        /\ T1.calls = {}
        /\ T1.exc = "none"
        /\ T1.ret = T1.prev.ret

\* C6 (as claimed): get() and asyncGet() never raise, whatever the canonical
\* file holds and whatever read fails, and leave the store loaded.
C6_GetNeverRaises ==
    (T1.pc = "done" /\ T1.op \in Getters) => (T1.exc = "none" /\ _loaded)

\* C7: a set(V)/asyncSet(V) that is over either wrote V (no failure) or
\* raised; when it raised, the canonical file is what it was before the call
\* and the cache has advanced: loaded, and a following get() or asyncGet()
\* returns V without touching the filesystem.
C7_FailedSet ==
    (T1.pc = "done" /\ T1.op \in Setters) =>
        IF T1.exc = "none" THEN CanonContent(Here) = JsonDumps(T1.arg)
        ELSE /\ CanonContent(Here) = T1.canon0
             /\ _loaded
             /\ _params = T1.arg
             /\ GetOn(Here).t.ret = T1.arg /\ GetOn(Here).t.calls = {}
             /\ LoadOn(Here).t.ret = T1.arg /\ LoadOn(Here).t.calls = {}

\* C7 witness: a set of a record failed in the filesystem after its temp file
\* was written, over an existing canonical file.
C7_Witness ==
    /\ T1.pc = "done" /\ T1.op \in Setters /\ T1.exc = "OSError"
    /\ T1.arg \in Records /\ "flush" \in T1.calls
    /\ T1.canon0 \in Bodies /\ T1.canon0 # JsonDumps(T1.arg)

\* C8: the same operations with the same fault through load_params and
\* update_params on one store and through the params property on another
\* give the same results, the same exceptions, the same filesystem calls, the
\* same cache and the same files.
C8_SurfacesAgree ==
    /\ twin.t.ret = T1.ret
    /\ twin.t.exc = T1.exc
    /\ twin.t.calls = T1.calls
    /\ twin._params = _params
    /\ twin._loaded = _loaded
    /\ twin.alive = alive
    /\ CanonContent(twin) = CanonContent(Here)
    /\ TempContent(twin) = TempContent(Here)

\* C8 witness: a set that failed at its rename on both stores, after a state
\* in which the cache was loaded.
C8_Witness ==
    /\ T1.op = "update_params" /\ twin.t.op = "params_set"
    /\ T1.exc = "OSError" /\ "rename" \in T1.calls
    /\ T1.pc = "done" /\ twin.t.pc = "done"

\* C9: construction with a record, when no file exists, leaves the complete
\* serialization of the record in the canonical file, or fails when the
\* persist fails; when a file exists it leaves the file as it is and makes no
\* filesystem call beyond the existence check.
C9_CreateOnConstruct ==
    (T1.pc = "done" /\ T1.op = "__init__" /\ T1.arg # None) =>
        IF T1.canon0 = Absent
        THEN \/ T1.exc = "none" /\ alive /\ CanonContent(Here) = JsonDumps(T1.arg)
             \/ T1.exc # "none" /\ ~alive /\ CanonContent(Here) = Absent
        ELSE /\ T1.exc = "none" /\ alive
             /\ CanonContent(Here) = T1.canon0
             /\ T1.calls = {"exists"}

\* C9 witness: a store constructed with a record where no file was.
C9_Witness ==
    /\ T1.pc = "done" /\ T1.op = "__init__" /\ T1.arg \in Records
    /\ T1.canon0 = Absent /\ T1.exc = "none"
    /\ CanonContent(Here) = JsonDumps(T1.arg)

\* C10: construction without a record makes no filesystem call and leaves
\* _params None and _loaded False, whatever is on disk.
C10_LazyConstruct ==
    (T1.pc = "done" /\ T1.op = "__init__" /\ T1.arg = None) =>
        /\ T1.calls = {}
        /\ _params = None
        /\ ~_loaded
        /\ CanonContent(Here) = T1.canon0

\* C10 witness: a store constructed without a record over an existing file.
C10_Witness ==
    /\ T1.pc = "done" /\ T1.op = "__init__" /\ T1.arg = None
    /\ canon # NoFile /\ data[canon] \in Bodies

\* The persist of the call that is over got past the open of the temp file.
TempOpened ==
    \/ T1.exc \in {"TypeError", "AttributeError"}
    \/ T1.calls \cap {"write", "flush", "fsync", "rename"} # {}

\* C11 (as claimed): when a persist that had opened the temp file fails and
\* the removal of the temp file does not itself fail, no file is left at the
\* temp path when the call is over.
C11_TempRemovedOnFailure ==
    (T1.pc = "done" /\ T1.op \in Setters \cup {"__init__"} /\ T1.exc # "none"
       /\ TempOpened) =>
        (temp = NoFile \/ "remove" \in T1.calls)

\* The record a file content stands for: the one whose serialization it is,
\* None for any other content and for no file.
RecordOf(content) ==
    IF content \in Bodies THEN CHOOSE r \in Records : JsonDumps(r) = content
    ELSE None

\* C12 (as claimed): between calls of a sequential caller, a loaded cache
\* holds the value of the set just made, the record the load just made read
\* from disk, and, for a store just constructed with a record, by neither a
\* load nor a set, the record the disk holds.
C12_CacheIsLoadOrSet ==
    (T1.pc = "done" /\ _loaded /\ alive) =>
        CASE T1.op \in Setters -> _params = T1.arg
          [] T1.op \in Getters /\ T1.calls # {} -> _params = RecordOf(T1.text)
          [] T1.op = "__init__" -> _params = RecordOf(CanonContent(Here))
          [] OTHER -> TRUE

\* A caller enters a method in this step.
Enters == T1.pc \in {"idle", "done"} /\ T1'.pc # "idle"

\* What the cache holds after a step: the record given to a constructor or a
\* setter entered in the step, the record read by a load that completes in
\* the step, and what it held before otherwise.
CacheAfterStep ==
    IF Enters /\ T1'.op \in Setters \cup {"__init__"} THEN T1'.arg
    ELSE IF T1'.op \in Getters /\ ~_loaded /\ _loaded' THEN RecordOf(T1'.text)
    ELSE _params

\* C12 (amended): under sequential use a loaded cache holds the most recent
\* of the record given at construction (written only if no file existed),
\* the value of the last set and the record last loaded from disk.
C12_CacheFollowsLastEvent == [][(_loaded' /\ alive') => _params' = CacheAfterStep]_vars

\* C12 witness: a store constructed with a record over a file that holds
\* another record: loaded, the cache holds the given record, the file the other.
C12_Witness ==
    /\ T1.pc = "done" /\ T1.op = "__init__" /\ T1.arg \in Records
    /\ T1.canon0 \in Bodies /\ T1.canon0 # JsonDumps(T1.arg)
    /\ _loaded /\ _params = T1.arg /\ CanonContent(Here) = T1.canon0

\* C13 (as claimed): when a first-time load_params (one that went to the
\* file) and an update_params(V) on the same store are both over, whether V
\* was set while the load was suspended or after it, the cache holds V.
C13_LoadKeepsNewerSet ==
    \A i, j \in Tasks :
        (/\ tasks[i].op = "load_params" /\ tasks[i].pc = "done" /\ tasks[i].calls # {}
         /\ tasks[j].op = "update_params" /\ tasks[j].pc = "done"
         /\ tasks[j].arg \in Records) =>
            (_loaded /\ _params = tasks[j].arg)

\* C14 (as claimed): when two load_params calls that both went to the file
\* are over, with no writer, neither raised, both returned the same value,
\* the record on disk or None, and the cache holds it with _loaded True.
C14_BenignLoadRace ==
    \A i, j \in Tasks :
        (/\ i # j
         /\ tasks[i].op = "load_params" /\ tasks[i].pc = "done" /\ tasks[i].calls # {}
         /\ tasks[j].op = "load_params" /\ tasks[j].pc = "done" /\ tasks[j].calls # {}) =>
            /\ tasks[i].exc = "none" /\ tasks[j].exc = "none"
            /\ tasks[i].ret = tasks[j].ret
            /\ tasks[i].ret = RecordOf(CanonContent(Here))
            /\ _loaded /\ _params = tasks[i].ret

\* C15: a call made while a file is left at the temp path.  A getter leaves
\* that file as it is, reads nothing but the canonical file and, when it
\* loads, returns the record of what it read there; a setter that returns
\* without a failure leaves the complete serialization of its value in the
\* canonical file and no file at the temp path.
C15_LeftoverTempIgnored ==
    (T1.pc = "done" /\ T1.temp0 # Absent) =>
        /\ T1.op \in Getters =>
               /\ TempContent(Here) = T1.temp0
               /\ T1.text \in {<<>>, T1.canon0}
               /\ (T1.calls # {} /\ T1.exc = "none") => T1.ret = RecordOf(T1.text)
        /\ (T1.op \in Setters /\ T1.exc = "none") =>
               /\ CanonContent(Here) = JsonDumps(T1.arg)
               /\ temp = NoFile

\* C15 witness: a set has succeeded over a temp file that a dead write left
\* with part of another body in it.
C15_Witness ==
    /\ T1.pc = "done" /\ T1.op \in Setters /\ T1.exc = "none"
    /\ T1.temp0 \notin Bodies \cup {Absent, <<>>}
    /\ temp = NoFile /\ CanonContent(Here) = JsonDumps(T1.arg)

\* C16: at every step of a get or a load_params, and when it is over, raised
\* or not, the canonical file and the temp path hold what they held when the
\* call was entered; so they do after a constructor whose only filesystem
\* call was the existence check.
C16_GetLeavesFiles ==
    /\ T1.op \in Getters =>
           /\ CanonContent(Here) = T1.canon0
           /\ TempContent(Here) = T1.temp0
    /\ (T1.op = "__init__" /\ T1.calls = {"exists"}) =>
           /\ CanonContent(Here) = T1.canon0
           /\ TempContent(Here) = T1.temp0

\* C16 witness: a get has read a file that holds no record, with a temp file
\* left beside it, and returned None.
C16_Witness ==
    /\ T1.pc = "done" /\ T1.op \in Getters /\ "read" \in T1.calls
    /\ T1.canon0 \in OddFiles \ {<<>>}
    /\ T1.temp0 # Absent
    /\ T1.ret = None /\ _loaded

\* C17 (as claimed): with no filesystem fault, when the only calls made on
\* the store are two update_params of serializable records, overlapping or
\* one after the other, a call that is over has returned without raising.
C17_WriterNotFailedByWriter ==
    (/\ ncalls = Cardinality(Tasks)
     /\ \A j \in Tasks : tasks[j].op = "update_params" /\ tasks[j].arg \in Records) =>
        \A i \in Tasks : tasks[i].pc = "done" => tasks[i].exc = "none"

\* C18 (as claimed, the half about the value): in every state in which no
\* blocking get is under way, a store that is not loaded holds no record.
C18_NotLoadedIsNull ==
    (T1.op # "params_get" /\ ~_loaded) => _params = None

\* A load has assigned the record it read and is leaving the with block: the
\* file is being closed, `self._loaded = True` has not run yet.
LoadClosing == T1.op \in Getters /\ T1.pc = "rclose"

\* The step makes a new store object: a constructor is entered, or the
\* process dies.
NewStore == (Enters /\ T1'.op = "__init__") \/ ~alive'

\* C18 (amended): on one store object _loaded never goes from True back to
\* False, and a store that is not loaded holds no record except while a load
\* is between assigning what it read and setting _loaded.
C18_MonotoneCache ==
    /\ []((~_loaded /\ ~LoadClosing) => _params = None)
    /\ [][(_loaded /\ ~NewStore) => _loaded']_vars

\* C18 witness: a store is still loaded, with the value of a set that failed,
\* at the get made after it: the file holds something else.
C18_Witness ==
    /\ T1.pc = "done" /\ T1.op \in Getters /\ T1.calls = {}
    /\ _loaded /\ _params \in Records /\ T1.ret = _params
    /\ CanonContent(Here) # JsonDumps(_params)

====
